---- MODULE Spec2Model ----
(***************************************************************************)
(* Model of the ElevenLabs demo script (src/main.py): the ElevenLabsDemo    *)
(* class and the main() driver.  The remote service, the file system and    *)
(* the playback sink are the environment: every call into them either       *)
(* raises or returns, and what it returns is drawn from small sets.         *)
(***************************************************************************)
EXTENDS Naturals, Sequences, FiniteSets

\* ------------------------------------------------------------------ bounds
\* Longest chunk sequence the remote service delivers on a streaming call.
MaxChunks == 2
\* Longest voice listing the remote service returns.
MaxVoices == 2
\* The number of get_voice_by_name calls a user of the class makes.
MaxLookups == 2

\* ------------------------------------------------------------- text values
\* Python's None, for the values that are strings or None.
NONE == "<None>"

\* Strings whose characters matter (voice names, output paths) are sequences
\* of one-character strings.
UpperChars == <<"A","B","C","D","E","F","G","H","I","J","K","L","M",
                "N","O","P","Q","R","S","T","U","V","W","X","Y","Z">>
LowerChars == <<"a","b","c","d","e","f","g","h","i","j","k","l","m",
                "n","o","p","q","r","s","t","u","v","w","x","y","z">>

\* str.lower() on one character.
LowerChar(c) ==
    IF \E k \in 1..Len(UpperChars) : UpperChars[k] = c
    THEN LowerChars[CHOOSE k \in 1..Len(UpperChars) : UpperChars[k] = c]
    ELSE c

\* str.lower()
Lower(s) == [k \in 1..Len(s) |-> LowerChar(s[k])]

DigitChars == <<"0","1","2","3","4","5","6","7","8","9">>

\* str(n) for a natural number, as f"{i}" formats it.
RECURSIVE IntToStr(_)
IntToStr(n) ==
    IF n < 10 THEN <<DigitChars[n + 1]>>
    ELSE IntToStr(n \div 10) \o <<DigitChars[(n % 10) + 1]>>

\* Whether sequence part occurs in sequence s as a contiguous run.
Contains(s, part) ==
    \E k \in 0..(Len(s) - Len(part)) :
        \A j \in 1..Len(part) : s[k + j] = part[j]

Rachel == <<"R","a","c","h","e","l">>
Drew   == <<"D","r","e","w">>
Clyde  == <<"C","l","y","d","e">>
Paul   == <<"P","a","u","l">>

\* The hardcoded voice names of demo_multiple_voices.
demo_voices == <<Rachel, Drew, Clyde, Paul>>

\* f"demo_voice_{i}_{voice_name.lower()}.mp3"
OutputFile(i, voice_name) ==
    <<"demo_voice_">> \o IntToStr(i) \o <<"_">> \o Lower(voice_name) \o <<".mp3">>

\* ------------------------------------------------------------ environment
\* What os.getenv('ELEVENLABS_API_KEY') may yield: unset, empty, a key.
EnvValues == {NONE, "", "test-key"}

\* The exceptions a call can raise, by what main's handlers tell apart:
\* ValueError (and its subclasses) and every other Exception.
ExcTypes == {"ValueError", "Exception"}

\* The chunks of a stream are opaque: each is known by its number in the
\* order of delivery.
NextChunk(delivered) == Len(delivered) + 1

\* The complete audio a non-streaming synthesis call may return.
AudioContents == {<<"c1", "c2">>}

\* How the installed client library hands back the audio of a non-streaming
\* call: a bytes object, which can be read any number of times, or a
\* one-shot iterator of chunks.  save() and play() accept both.
AudioKinds == {"bytes", "iter"}

\* Display names the remote service's voices may carry.
VoiceNamePool == {Rachel, Lower(Rachel)}

\* The listings get_all() may return: up to MaxVoices voices, each with its
\* own voice_id.
Listings ==
    UNION {{[k \in 1..n |-> [name |-> names[k], voice_id |-> k]] :
              names \in [1..n -> VoiceNamePool]} : n \in 0..MaxVoices}

\* ------------------------------------------------------------------ state
VARIABLES
    env,        \* value of the ELEVENLABS_API_KEY environment variable
    audio_kind, \* what kind of object the client library's generate returns
    api_key,    \* self.api_key
    client,     \* self.client: "none" until constructed, then "ready"
    pc,         \* position of main()
    outcome,    \* what main() has reported: running, completed, ...
    voices,     \* main's local: the listing list_voices returned
    ops,        \* the demo operations invoked so far, in order
    active,     \* the operation now running, "none" between operations
    calls,      \* every remote call issued so far, with its result
    failed,     \* failures caught and logged at an operation's boundary
    audio,      \* the operation's local: what client.generate returned
    files,      \* the file system: the audio files written
    played,     \* every invocation of play(), with what it received
    received,   \* streaming: chunks the remote call has delivered
    inhand,     \* streaming: the chunk delivered and not yet forwarded
    streamed,   \* streaming: chunks forwarded to the playback sink
    i,          \* demo_multiple_voices: the loop index
    paths,      \* demo_multiple_voices: the output paths produced
    lookups     \* every get_voice_by_name call made, with how it ended

vars == <<env, audio_kind, api_key, client, pc, outcome, voices, ops, active, calls,
          failed, audio, files, played, received, inhand, streamed, i,
          paths, lookups>>

runVars    == <<ops, active, calls, failed>>
audioVars  == <<audio, files, played>>
streamVars == <<received, inhand, streamed>>
multiVars  == <<i, paths>>
findVars   == <<lookups>>
keyVars    == <<env, audio_kind, api_key, client>>

NoAudio == [kind |-> "none", rest |-> <<>>]

\* ------------------------------------------------------------- helpers
\* A mutant of Truthy: only None is falsy, the empty string passes.
TruthyNotNone(s) == s # NONE

\* Python truthiness of an Optional[str]: None and "" are falsy.
Truthy(s) == s # NONE /\ s # ""

\* Python's `a or b`.
PyOr(a, b) == IF Truthy(a) THEN a ELSE b

\* main's except clauses: ValueError is reported as a configuration error
\* (with the setup instructions), any other Exception as unexpected.
MainHandler(exc) ==
    IF exc = "ValueError" THEN "config_error" ELSE "unexpected_error"

\* The record of one remote call: the scenario that issued it (idx is the
\* loop index in demo_multiple_voices, 0 elsewhere), the request, and
\* whether it returned (ok) and what.
Call(op, scen, idx, voice, model, isStream, ok, data) ==
    [op |-> op, scen |-> scen, idx |-> idx, voice |-> voice, model |-> model,
     stream |-> isStream, ok |-> ok, data |-> data]

\* What a reader of the audio object gets: all that is left in it.
ReadAll(a) == a.rest

\* The audio object after it was read to its end: bytes are unchanged, an
\* iterator is exhausted.
AfterRead(a) == IF a.kind = "iter" THEN [a EXCEPT !.rest = <<>>] ELSE a

\* save(): the file at path is created or overwritten with data.
WriteFile(fs, path, data) ==
    {f \in fs : f.path # path} \cup {[path |-> path, data |-> data]}

\* print(f"... {e}") in an operation's except clause.
Logged(scen, idx, step) ==
    failed \cup {[scen |-> scen, idx |-> idx, step |-> step]}

\* ------------------------------------------------------------------ Init
Init ==
    /\ env \in EnvValues
    /\ audio_kind \in AudioKinds
    /\ api_key = NONE
    /\ client = "none"
    /\ pc = "construct"
    /\ outcome = "running"
    /\ voices = <<>>
    /\ ops = <<>>
    /\ active = "none"
    /\ calls = <<>>
    /\ failed = {}
    /\ audio = NoAudio
    /\ files = {}
    /\ played = <<>>
    /\ received = <<>>
    /\ inhand = <<>>
    /\ streamed = <<>>
    /\ i = 0
    /\ paths = <<>>
    /\ lookups = <<>>

\* ----------------------------------------------------- ElevenLabsDemo()
\* main's `demo = ElevenLabsDemo()`: __init__ with api_key=None.  A falsy key
\* raises ValueError, which main's `except ValueError` reports.
Construct ==
    /\ pc = "construct"
    /\ LET key == PyOr(NONE, env) IN
       /\ api_key' = key
       /\ IF ~Truthy(key)
          THEN /\ client' = client
               /\ outcome' = MainHandler("ValueError")
               /\ pc' = "exit"
          ELSE /\ client' = "ready"
               /\ outcome' = outcome
               /\ pc' = "list_voices"
    /\ UNCHANGED <<env, audio_kind, voices, runVars, audioVars, streamVars,
                   multiVars, findVars>>

\* ---------------------------------------------------------- list_voices
\* Demo 1.  list_voices has no try/except: what client.voices.get_all()
\* raises reaches main's handlers and ends the run.
ListVoices ==
    /\ pc = "list_voices"
    /\ ops' = Append(ops, "list_voices")
    /\ \/ \E exc \in ExcTypes :
            /\ calls' = Append(calls, Call("get_all", "list_voices", 0, <<>>,
                                           "", FALSE, FALSE, <<>>))
            /\ outcome' = MainHandler(exc)
            /\ pc' = "exit"
            /\ voices' = voices
       \/ \E listing \in Listings :
            /\ calls' = Append(calls, Call("get_all", "list_voices", 0, <<>>,
                                           "", FALSE, TRUE, <<>>))
            /\ voices' = listing
            /\ outcome' = outcome
            /\ pc' = "basic_generate"
    /\ UNCHANGED <<keyVars, active, failed, audioVars, streamVars, multiVars,
                   findVars>>

\* ------------------------------------------------------------ basic_tts
\* A mutant of AfterBasic: Demo 3 is never run.
AfterBasicSkip == "stream_generate"

\* main after basic_tts returned: `if voices:` guards Demo 3.
AfterBasic == IF voices # <<>> THEN "adv_generate" ELSE "stream_generate"

\* A mutant of BasicGenerate: a call that failed is issued once more
\* before the failure is logged.
BasicGenerateRetry ==
    /\ pc = "basic_generate"
    /\ ops' = IF active = "basic_tts" THEN ops ELSE Append(ops, "basic_tts")
    /\ \/ /\ calls' = Append(calls, Call("generate", "basic_tts", 0, Rachel,
                                         "eleven_monolingual_v1", FALSE,
                                         FALSE, <<>>))
          /\ audio' = NoAudio
          /\ IF active = "basic_tts"
             THEN /\ failed' = Logged("basic_tts", 0, "generate")
                  /\ active' = "none"
                  /\ pc' = AfterBasic
             ELSE /\ failed' = failed
                  /\ active' = "basic_tts"
                  /\ pc' = pc
       \/ \E data \in AudioContents :
            /\ calls' = Append(calls, Call("generate", "basic_tts", 0, Rachel,
                                           "eleven_monolingual_v1", FALSE,
                                           TRUE, data))
            /\ audio' = [kind |-> audio_kind, rest |-> data]
            /\ failed' = failed
            /\ active' = "basic_tts"
            /\ pc' = "basic_save"
    /\ UNCHANGED <<keyVars, outcome, voices, files, played, streamVars,
                   multiVars, findVars>>

\* Demo 2, client.generate(...): raises, caught by basic_tts's own except,
\* or returns the audio.
BasicGenerate ==
    /\ pc = "basic_generate"
    /\ ops' = Append(ops, "basic_tts")
    /\ \/ /\ calls' = Append(calls, Call("generate", "basic_tts", 0, Rachel,
                                         "eleven_monolingual_v1", FALSE,
                                         FALSE, <<>>))
          /\ failed' = Logged("basic_tts", 0, "generate")
          /\ audio' = NoAudio
          /\ active' = "none"
          /\ pc' = AfterBasic
       \/ \E data \in AudioContents :
            /\ calls' = Append(calls, Call("generate", "basic_tts", 0, Rachel,
                                           "eleven_monolingual_v1", FALSE,
                                           TRUE, data))
            /\ audio' = [kind |-> audio_kind, rest |-> data]
            /\ failed' = failed
            /\ active' = "basic_tts"
            /\ pc' = "basic_save"
    /\ UNCHANGED <<keyVars, outcome, voices, files, played, streamVars,
                   multiVars, findVars>>

\* A mutant of BasicSave: a failing file write is not caught by basic_tts
\* and reaches main's handlers.
BasicSaveUncaught ==
    /\ pc = "basic_save"
    /\ \/ \E exc \in ExcTypes :
            /\ outcome' = MainHandler(exc)
            /\ audio' = NoAudio
            /\ active' = "none"
            /\ pc' = "exit"
            /\ UNCHANGED <<failed, files>>
       \/ /\ files' = WriteFile(files, <<"demo_basic.mp3">>, ReadAll(audio))
          /\ audio' = AfterRead(audio)
          /\ UNCHANGED <<failed, active, outcome>>
          /\ pc' = "basic_play"
    /\ UNCHANGED <<keyVars, voices, ops, calls, played, streamVars,
                   multiVars, findVars>>

\* save(audio, output_file): raises, caught, or writes all it reads from
\* the audio object.
BasicSave ==
    /\ pc = "basic_save"
    /\ \/ /\ failed' = Logged("basic_tts", 0, "save")
          /\ audio' = NoAudio
          /\ active' = "none"
          /\ pc' = AfterBasic
          /\ files' = files
       \/ /\ files' = WriteFile(files, <<"demo_basic.mp3">>, ReadAll(audio))
          /\ audio' = AfterRead(audio)
          /\ UNCHANGED <<failed, active>>
          /\ pc' = "basic_play"
    /\ UNCHANGED <<keyVars, outcome, voices, ops, calls, played, streamVars,
                   multiVars, findVars>>

\* play(audio): raises, caught, or plays all it reads from the same audio
\* object; blocks until playback ends.
BasicPlay ==
    /\ pc = "basic_play"
    /\ \/ /\ failed' = Logged("basic_tts", 0, "play")
          /\ played' = played
       \/ /\ played' = Append(played, [scen |-> "basic_tts",
                                        data |-> ReadAll(audio)])
          /\ failed' = failed
    /\ audio' = NoAudio
    /\ active' = "none"
    /\ pc' = AfterBasic
    /\ UNCHANGED <<keyVars, outcome, voices, ops, calls, files, streamVars,
                   multiVars, findVars>>

\* ------------------------------------------- advanced_tts_with_settings
\* Demo 3 (only when the listing is not empty), client.generate(...) with
\* the first listed voice's voice_id and the custom settings.
AdvGenerate ==
    /\ pc = "adv_generate"
    /\ ops' = Append(ops, "advanced_tts_with_settings")
    /\ \/ /\ calls' = Append(calls, Call("generate",
                                "advanced_tts_with_settings", 0,
                                <<voices[1].voice_id>>,
                                "eleven_multilingual_v2", FALSE, FALSE, <<>>))
          /\ failed' = Logged("advanced_tts_with_settings", 0, "generate")
          /\ audio' = NoAudio
          /\ active' = "none"
          /\ pc' = "stream_generate"
       \/ \E data \in AudioContents :
            /\ calls' = Append(calls, Call("generate",
                                "advanced_tts_with_settings", 0,
                                <<voices[1].voice_id>>,
                                "eleven_multilingual_v2", FALSE, TRUE, data))
            /\ audio' = [kind |-> audio_kind, rest |-> data]
            /\ failed' = failed
            /\ active' = "advanced_tts_with_settings"
            /\ pc' = "adv_save"
    /\ UNCHANGED <<keyVars, outcome, voices, files, played, streamVars,
                   multiVars, findVars>>

\* save(audio, output_file)
AdvSave ==
    /\ pc = "adv_save"
    /\ \/ /\ failed' = Logged("advanced_tts_with_settings", 0, "save")
          /\ audio' = NoAudio
          /\ active' = "none"
          /\ pc' = "stream_generate"
          /\ files' = files
       \/ /\ files' = WriteFile(files, <<"demo_advanced.mp3">>, ReadAll(audio))
          /\ audio' = AfterRead(audio)
          /\ UNCHANGED <<failed, active>>
          /\ pc' = "adv_play"
    /\ UNCHANGED <<keyVars, outcome, voices, ops, calls, played, streamVars,
                   multiVars, findVars>>

\* play(audio)
AdvPlay ==
    /\ pc = "adv_play"
    /\ \/ /\ failed' = Logged("advanced_tts_with_settings", 0, "play")
          /\ played' = played
       \/ /\ played' = Append(played, [scen |-> "advanced_tts_with_settings",
                                        data |-> ReadAll(audio)])
          /\ failed' = failed
    /\ audio' = NoAudio
    /\ active' = "none"
    /\ pc' = "stream_generate"
    /\ UNCHANGED <<keyVars, outcome, voices, ops, calls, files, streamVars,
                   multiVars, findVars>>

\* -------------------------------------------------------- streaming_tts
\* Demo 4, client.generate(..., stream=True): raises, caught, or returns
\* the chunk stream, of which nothing has been delivered yet.
StreamGenerate ==
    /\ pc = "stream_generate"
    /\ ops' = Append(ops, "streaming_tts")
    /\ \/ /\ calls' = Append(calls, Call("generate", "streaming_tts", 0,
                                Rachel, "eleven_turbo_v2", TRUE, FALSE, <<>>))
          /\ failed' = Logged("streaming_tts", 0, "generate")
          /\ active' = "none"
          /\ pc' = "multi_generate"
       \/ /\ calls' = Append(calls, Call("generate", "streaming_tts", 0,
                                Rachel, "eleven_turbo_v2", TRUE, TRUE, <<>>))
          /\ failed' = failed
          /\ active' = "streaming_tts"
          /\ pc' = "stream_loop"
    /\ i' = IF pc' = "multi_generate" THEN 1 ELSE i
    /\ UNCHANGED <<keyVars, outcome, voices, audioVars, streamVars, paths,
                   findVars>>

\* stream(audio_stream) waiting on the stream: the remote call delivers the
\* next chunk, or ends the stream (streaming_tts prints completion and
\* returns), or fails (caught and logged).
StreamArrive ==
    /\ pc = "stream_loop"
    /\ inhand = <<>>
    /\ \/ /\ Len(received) < MaxChunks
          /\ received' = Append(received, NextChunk(received))
          /\ inhand' = <<NextChunk(received)>>
          /\ UNCHANGED <<failed, active, pc, i>>
       \/ /\ UNCHANGED <<received, inhand, failed>>
          /\ active' = "none"
          /\ pc' = "multi_generate"
          /\ i' = 1
       \/ /\ UNCHANGED <<received, inhand>>
          /\ failed' = Logged("streaming_tts", 0, "receive")
          /\ active' = "none"
          /\ pc' = "multi_generate"
          /\ i' = 1
    /\ UNCHANGED <<keyVars, outcome, voices, ops, calls, audioVars, streamed,
                   paths, findVars>>

\* A mutant of Forward: the chunk in hand is put before what was played.
ForwardFront(sink, chunk) == <<chunk>> \o sink

\* The playback sink takes one chunk after those it already has.
Forward(sink, chunk) == Append(sink, chunk)

\* A mutant of StreamForward: a failure of the sink is not caught by
\* streaming_tts and reaches main's handlers.
StreamForwardUncaught ==
    /\ pc = "stream_loop"
    /\ inhand # <<>>
    /\ \/ /\ streamed' = Forward(streamed, inhand[1])
          /\ inhand' = <<>>
          /\ UNCHANGED <<active, pc, outcome>>
       \/ \E exc \in ExcTypes :
            /\ UNCHANGED <<streamed>>
            /\ inhand' = <<>>
            /\ active' = "none"
            /\ outcome' = MainHandler(exc)
            /\ pc' = "exit"
    /\ UNCHANGED <<keyVars, voices, ops, calls, failed, audioVars, received,
                   multiVars, findVars>>

\* stream(audio_stream) holding a chunk: it is handed to the playback sink,
\* or the sink fails (caught and logged).
StreamForward ==
    /\ pc = "stream_loop"
    /\ inhand # <<>>
    /\ \/ /\ streamed' = Forward(streamed, inhand[1])
          /\ inhand' = <<>>
          /\ UNCHANGED <<failed, active, pc, i>>
       \/ /\ UNCHANGED <<streamed>>
          /\ inhand' = <<>>
          /\ failed' = Logged("streaming_tts", 0, "play")
          /\ active' = "none"
          /\ pc' = "multi_generate"
          /\ i' = 1
    /\ UNCHANGED <<keyVars, outcome, voices, ops, calls, audioVars, received,
                   paths, findVars>>

\* ------------------------------------------------- demo_multiple_voices
\* The end of one turn of the loop over demo_voices.  After the last turn
\* the operation returns and main prints the completion message.
LoopNext ==
    IF i < Len(demo_voices)
    THEN /\ i' = i + 1
         /\ pc' = "multi_generate"
         /\ UNCHANGED <<active, outcome>>
    ELSE /\ i' = i
         /\ pc' = "exit"
         /\ active' = "none"
         /\ outcome' = "completed"

\* A mutant of LoopAbort: the first failing voice ends the loop.
LoopBreak ==
    /\ i' = i
    /\ pc' = "exit"
    /\ active' = "none"
    /\ outcome' = "completed"

\* The end of a turn whose try block raised: the except clause is inside
\* the loop, which goes on with the next name.
LoopAbort == LoopNext

\* Demo 5, one turn: client.generate(...) for demo_voices[i]: raises, caught
\* inside the loop, or returns the audio.
MultiGenerate ==
    /\ pc = "multi_generate"
    /\ ops' = IF i = 1 THEN Append(ops, "demo_multiple_voices") ELSE ops
    /\ \/ /\ calls' = Append(calls, Call("generate", "demo_multiple_voices",
                                i, demo_voices[i], "eleven_monolingual_v1",
                                FALSE, FALSE, <<>>))
          /\ failed' = Logged("demo_multiple_voices", i, "generate")
          /\ audio' = NoAudio
          /\ LoopAbort
       \/ \E data \in AudioContents :
            /\ calls' = Append(calls, Call("generate", "demo_multiple_voices",
                                i, demo_voices[i], "eleven_monolingual_v1",
                                FALSE, TRUE, data))
            /\ audio' = [kind |-> audio_kind, rest |-> data]
            /\ failed' = failed
            /\ active' = "demo_multiple_voices"
            /\ pc' = "multi_save"
            /\ UNCHANGED <<i, outcome>>
    /\ UNCHANGED <<keyVars, voices, files, played, streamVars, paths,
                   findVars>>

\* The same turn: the output path is derived from the index and the name,
\* then save(audio, output_file) raises, caught inside the loop, or writes
\* the file.  Nothing is played.
MultiSave ==
    /\ pc = "multi_save"
    /\ paths' = Append(paths, OutputFile(i, demo_voices[i]))
    /\ \/ /\ failed' = Logged("demo_multiple_voices", i, "save")
          /\ files' = files
          /\ LoopAbort
       \/ /\ files' = WriteFile(files, OutputFile(i, demo_voices[i]),
                                 ReadAll(audio))
          /\ failed' = failed
          /\ LoopNext
    /\ audio' = NoAudio
    /\ UNCHANGED <<keyVars, voices, ops, calls, played, streamVars, findVars>>

\* ------------------------------------------------------------ the run
Next ==
    \/ Construct
    \/ ListVoices
    \/ BasicGenerate
    \/ BasicSave
    \/ BasicPlay
    \/ AdvGenerate
    \/ AdvSave
    \/ AdvPlay
    \/ StreamGenerate
    \/ StreamArrive
    \/ StreamForward
    \/ MultiGenerate
    \/ MultiSave

Spec == Init /\ [][Next]_vars

\* ---------------------------------------------------- get_voice_by_name
\* get_voice_by_name is not called by main: it is checked under SpecFind,
\* where a user of the class holds a constructed ElevenLabsDemo and looks
\* names up.

\* The names a caller may ask for.
RequestNames == {Rachel, Lower(Rachel), <<"R","A","C","H","E","L">>, Drew}

\* A mutant of NameMatches: the names are compared as they are.
NameMatchesExact(voice, voice_name) == voice.name = voice_name

\* voice.name.lower() == voice_name.lower()
NameMatches(voice, voice_name) == Lower(voice.name) = Lower(voice_name)

\* The for loop over voices.voices from position k on: the first voice that
\* matches is returned, None (the empty sequence) when the loop runs out.
RECURSIVE ScanFrom(_, _, _)
ScanFrom(listing, voice_name, k) ==
    IF k > Len(listing) THEN <<>>
    ELSE IF NameMatches(listing[k], voice_name) THEN <<listing[k]>>
    ELSE ScanFrom(listing, voice_name, k + 1)

\* One call of get_voice_by_name(voice_name): client.voices.get_all()
\* raises, and nothing in the method catches it, or returns the listing,
\* which is scanned.
GetVoiceByName ==
    /\ pc = "ready"
    /\ client = "ready"
    /\ Len(lookups) < MaxLookups
    /\ \E voice_name \in RequestNames :
         \/ \E exc \in ExcTypes :
              /\ calls' = Append(calls, Call("get_all", "get_voice_by_name",
                                    Len(lookups) + 1, <<>>, "", FALSE, FALSE,
                                    <<>>))
              /\ lookups' = Append(lookups,
                    [name |-> voice_name, listing |-> <<>>,
                     raised |-> <<exc>>, result |-> <<>>])
         \/ \E listing \in Listings :
              /\ calls' = Append(calls, Call("get_all", "get_voice_by_name",
                                    Len(lookups) + 1, <<>>, "", FALSE, TRUE,
                                    <<>>))
              /\ lookups' = Append(lookups,
                    [name |-> voice_name, listing |-> listing,
                     raised |-> <<>>,
                     result |-> ScanFrom(listing, voice_name, 1)])
    /\ UNCHANGED <<keyVars, pc, outcome, voices, ops, active, failed,
                   audioVars, streamVars, multiVars>>

\* A user of the class after ElevenLabsDemo(api_key) returned.
InitFind ==
    /\ env = "test-key"
    /\ audio_kind \in AudioKinds
    /\ api_key = "test-key"
    /\ client = "ready"
    /\ pc = "ready"
    /\ outcome = "running"
    /\ voices = <<>>
    /\ ops = <<>>
    /\ active = "none"
    /\ calls = <<>>
    /\ failed = {}
    /\ audio = NoAudio
    /\ files = {}
    /\ played = <<>>
    /\ received = <<>>
    /\ inhand = <<>>
    /\ streamed = <<>>
    /\ i = 0
    /\ paths = <<>>
    /\ lookups = <<>>

NextFind == GetVoiceByName

SpecFind == InitFind /\ [][NextFind]_vars

\* =================================================================
\* Properties
\* =================================================================
IsPrefix(s, t) == Len(s) <= Len(t) /\ \A k \in 1..Len(s) : s[k] = t[k]

Has(seq, x) == \E k \in 1..Len(seq) : seq[k] = x

\* The calls one scenario issued, in the order issued.
CallsOf(scen) == SelectSeq(calls, LAMBDA c : c.scen = scen)

\* The listing call of the run has returned.
ListingReturned == Len(calls) >= 1 /\ calls[1].op = "get_all" /\ calls[1].ok

\* The environment variable yields no non-empty value (main passes no
\* credential of its own).
NoCredential == env = NONE \/ env = ""

\* C1: with no credential passed and none in the environment, construction
\* fails with the configuration error: no client handle is ever created, no
\* operation is invoked and no remote call is issued, and the run ends
\* reporting the configuration error.
C1_NoCredentialNoCall ==
    NoCredential =>
        /\ client = "none"
        /\ calls = <<>>
        /\ ops = <<>>
        /\ pc \in {"construct", "exit"}
        /\ pc = "exit" => outcome = "config_error"

C1_Witness == NoCredential /\ env = "" /\ pc = "exit" /\ outcome = "config_error"

\* C2 as stated: with a valid credential no failure ends the run, the voice
\* listing's included: a run that ends has reached the completion message.
C2_Original ==
    (client = "ready" /\ pc = "exit") => outcome = "completed"

\* The operations a run that got past the listing invokes.
ExpectedOps(listing) ==
    IF listing # <<>>
    THEN <<"list_voices", "basic_tts", "advanced_tts_with_settings",
           "streaming_tts", "demo_multiple_voices">>
    ELSE <<"list_voices", "basic_tts", "streaming_tts",
           "demo_multiple_voices">>

\* C2, amended: with a valid credential a failure of the voice listing ends
\* the run too (nothing after it is invoked); every failure inside the four
\* synthesis operations is contained: the run never stops before its end,
\* and once the listing has returned it ends with the completion message,
\* every later scenario attempted, every voice of the comparison included.
C2_Amended ==
    client = "ready" =>
        /\ pc # "exit" => ENABLED Next
        /\ (pc = "exit" /\ ~ListingReturned) =>
              /\ outcome \in {"config_error", "unexpected_error"}
              /\ ops = <<"list_voices">>
              /\ Len(calls) = 1
        /\ (pc = "exit" /\ ListingReturned) =>
              /\ outcome = "completed"
              /\ ops = ExpectedOps(voices)
              /\ Len(CallsOf("demo_multiple_voices")) = Len(demo_voices)
        /\ ListingReturned => outcome \in {"running", "completed"}
        /\ failed # {} => ListingReturned

C2_Witness ==
    /\ pc = "exit"
    /\ outcome = "completed"
    /\ {f.scen : f \in failed} =
          {"basic_tts", "advanced_tts_with_settings", "streaming_tts",
           "demo_multiple_voices"}
    /\ \E f \in failed : f.scen = "streaming_tts" /\ f.step = "play"

\* C3: basic_tts never raises past its own boundary: once it was invoked
\* the run reports no error of its own, a failure of any of its steps is
\* logged and the operation has returned, and the run goes on to the
\* following scenarios and ends with the completion message.
C3_BasicNeverRaises ==
    Has(ops, "basic_tts") =>
        /\ outcome \in {"running", "completed"}
        /\ pc # "exit" => ENABLED Next
        /\ pc = "exit" =>
              /\ outcome = "completed"
              /\ Has(ops, "streaming_tts")
              /\ Has(ops, "demo_multiple_voices")
        /\ (\E f \in failed : f.scen = "basic_tts") =>
              /\ pc \notin {"basic_generate", "basic_save", "basic_play"}
              /\ active # "basic_tts"

C3_Witness ==
    /\ pc = "exit"
    /\ outcome = "completed"
    /\ [scen |-> "basic_tts", idx |-> 0, step |-> "save"] \in failed

\* The indices of the comparison's calls that returned, in call order.
RECURSIVE OkIndices(_)
OkIndices(cs) ==
    IF cs = <<>> THEN <<>>
    ELSE IF cs[1].ok THEN <<cs[1].idx>> \o OkIndices(Tail(cs))
    ELSE OkIndices(Tail(cs))

\* The output path has been derived for every returned call but the one
\* whose turn is still at its save.
PathIndices ==
    LET ok == OkIndices(CallsOf("demo_multiple_voices")) IN
    IF pc = "multi_save" THEN SubSeq(ok, 1, Len(ok) - 1) ELSE ok

\* C4 as stated: a finished comparison has issued one call per name, in
\* list order, and has produced as many output paths as there are names,
\* pairwise distinct, each with its index and lowercased name, whether or
\* not a call failed.
C4_Original ==
    outcome = "completed" =>
        /\ Len(CallsOf("demo_multiple_voices")) = Len(demo_voices)
        /\ \A k \in 1..Len(demo_voices) :
              CallsOf("demo_multiple_voices")[k].voice = demo_voices[k]
        /\ Len(paths) = Len(demo_voices)
        /\ \A j, k \in 1..Len(paths) : j # k => paths[j] # paths[k]

\* C4, amended: the comparison issues exactly one call per name, in list
\* order, a failed call never preventing the calls after it; it produces an
\* output path for each name whose call returned and none for a name whose
\* call failed, so N paths only when no call fails; the paths are pairwise
\* distinct and each contains the name's position in the list (counted
\* from 1) and the lowercased name.
C4_Amended ==
    LET mc == CallsOf("demo_multiple_voices")
        pi == PathIndices
    IN
    /\ \A k \in 1..Len(mc) :
          /\ mc[k].idx = k
          /\ mc[k].voice = demo_voices[k]
          /\ mc[k].model = "eleven_monolingual_v1"
    /\ Len(mc) <= Len(demo_voices)
    /\ outcome = "completed" => Len(mc) = Len(demo_voices)
    /\ Len(paths) = Len(pi)
    /\ \A j \in 1..Len(paths) :
          /\ Contains(paths[j], IntToStr(pi[j]))
          /\ Contains(paths[j], Lower(demo_voices[pi[j]]))
    /\ \A j, k \in 1..Len(paths) : j # k => paths[j] # paths[k]
    /\ \A f \in files :
          f.path \notin {<<"demo_basic.mp3">>, <<"demo_advanced.mp3">>}
             => Has(paths, f.path)

C4_Witness ==
    LET mc == CallsOf("demo_multiple_voices") IN
    /\ outcome = "completed"
    /\ Len(mc) = Len(demo_voices)
    /\ ~mc[2].ok
    /\ mc[1].ok /\ mc[3].ok /\ mc[4].ok
    /\ Len(paths) = Len(demo_voices) - 1

\* C6: in the basic scenario, when the synthesis call returned and both the
\* file write and the playback went through, the output file holds exactly
\* the bytes returned and playback was invoked once, with those bytes.
C6_PlaybackReceivesArtifact ==
    LET bp == SelectSeq(played, LAMBDA e : e.scen = "basic_tts") IN
    /\ Len(bp) <= 1
    /\ Len(bp) = 1 =>
          /\ CallsOf("basic_tts")[1].ok
          /\ [path |-> <<"demo_basic.mp3">>,
              data |-> CallsOf("basic_tts")[1].data] \in files
          /\ bp[1].data = CallsOf("basic_tts")[1].data

\* The streaming operation has returned without logging a failure.
StreamCompleted ==
    /\ Has(ops, "streaming_tts")
    /\ pc \notin {"stream_generate", "stream_loop"}
    /\ ~\E f \in failed : f.scen = "streaming_tts"

\* C7: the playback sink has at every moment received a prefix of the
\* chunks delivered so far (no chunk is played before it arrives, none is
\* dropped, duplicated or reordered), a delivered chunk is forwarded before
\* the next is awaited, and when the streaming operation completes the sink
\* has received exactly the sequence delivered, whatever its length.
C7_StreamOrder ==
    /\ IsPrefix(streamed, received)
    /\ pc = "stream_loop" =>
          /\ Len(received) - Len(streamed) = Len(inhand)
          /\ inhand # <<>> => inhand[1] = received[Len(received)]
    /\ StreamCompleted => streamed = received

C7_Witness == StreamCompleted /\ streamed = <<1, 2>>

\* C9: no remote call is retried: no scenario (each voice of the comparison
\* counting as its own) has issued more than one call, so a failed call is
\* never followed by another call of the same scenario.
C9_NoRetry ==
    \A j, k \in 1..Len(calls) :
        (j # k) => ~(calls[j].scen = calls[k].scen /\ calls[j].idx = calls[k].idx)

C9_Witness ==
    /\ pc = "exit"
    /\ Len(calls) = 4 + Len(demo_voices)
    /\ \A k \in 2..Len(calls) : ~calls[k].ok

\* C10: the run reports a configuration error if and only if credential
\* resolution failed.
C10_ConfigErrorIffNoCredential ==
    pc = "exit" => (outcome = "config_error" <=> client = "none")

\* C8 as stated: with a valid credential, whatever the listing returns, a
\* run that ends has invoked each of the five operations once, in order.
C8_Original ==
    (client = "ready" /\ pc = "exit" /\ ListingReturned) =>
        ops = <<"list_voices", "basic_tts", "advanced_tts_with_settings",
                "streaming_tts", "demo_multiple_voices">>

\* The operations invoked so far are in the fixed order, none twice, the
\* tuned synthesis among them only for a listing that is not empty; a run
\* that reached the completion message has invoked them all.
OpsInOrder ==
    client = "ready" =>
        /\ IsPrefix(ops, ExpectedOps(voices))
        /\ outcome = "completed" => ops = ExpectedOps(voices)
        /\ (pc = "exit" /\ ~ListingReturned) => ops = <<"list_voices">>
        /\ active # "none" => active = ops[Len(ops)]

\* An operation is invoked only when none is running.
OpBeginsAfterPrevious ==
    ops' # ops => (active = "none" /\ Len(ops') = Len(ops) + 1)

\* C8, amended: with a valid credential a run invokes the operations in
\* the fixed order list voices, basic, tuned, streaming, comparison, each
\* at most once; the tuned synthesis is invoked only when the listing
\* returned at least one voice and is skipped for an empty listing; when
\* the listing call raises, nothing after it is invoked; a run that reaches
\* the completion message has invoked every other operation exactly once;
\* an operation begins only after the previous one has returned.
C8_Amended == []OpsInOrder /\ [][OpBeginsAfterPrevious]_vars

C8_Witness ==
    /\ pc = "exit"
    /\ outcome = "completed"
    /\ voices = <<>>
    /\ ops = <<"list_voices", "basic_tts", "streaming_tts",
               "demo_multiple_voices">>
    /\ Len(played) = 1

\* Two characters that are equal up to letter case.
SameCharIgnoringCase(a, b) ==
    \/ a = b
    \/ \E k \in 1..Len(UpperChars) :
          {a, b} = {UpperChars[k], LowerChars[k]}

\* Two names that are equal up to letter case.
SameIgnoringCase(a, b) ==
    /\ Len(a) = Len(b)
    /\ \A k \in 1..Len(a) : SameCharIgnoringCase(a[k], b[k])

\* The positions of a listing whose voice has the name, up to letter case.
Matches(listing, name) ==
    {k \in 1..Len(listing) : SameIgnoringCase(listing[k].name, name)}

\* What a lookup is to return from a listing: the first match, or None.
FirstMatch(listing, name) ==
    IF Matches(listing, name) = {} THEN <<>>
    ELSE <<listing[CHOOSE k \in Matches(listing, name) :
                      \A j \in Matches(listing, name) : k <= j]>>

\* C5 as stated: a lookup never raises, and returns the first voice whose
\* name equals the requested one ignoring case, or "not found".
C5_Original ==
    \A n \in 1..Len(lookups) :
        /\ lookups[n].raised = <<>>
        /\ lookups[n].result = FirstMatch(lookups[n].listing, lookups[n].name)

\* C5, amended: whenever the listing call returns, the lookup returns the
\* first listed voice whose name equals the requested one ignoring case, or
\* "not found" when none does, and does not raise, so that two requests
\* differing only in case get the same result from the same listing; a
\* failure of the listing call itself is not caught and is raised to the
\* caller.
C5_Amended ==
    /\ \A n \in 1..Len(lookups) :
          /\ lookups[n].raised = <<>> <=> CallsOf("get_voice_by_name")[n].ok
          /\ lookups[n].raised = <<>> =>
                lookups[n].result =
                    FirstMatch(lookups[n].listing, lookups[n].name)
          /\ lookups[n].raised # <<>> => lookups[n].result = <<>>
    /\ \A m, n \in 1..Len(lookups) :
          (/\ lookups[m].raised = <<>>
           /\ lookups[n].raised = <<>>
           /\ lookups[m].listing = lookups[n].listing
           /\ SameIgnoringCase(lookups[m].name, lookups[n].name))
          => lookups[m].result = lookups[n].result
    /\ Len(CallsOf("get_voice_by_name")) = Len(lookups)

C5_Witness ==
    /\ Len(lookups) = 2
    /\ lookups[1].name = Rachel
    /\ lookups[2].name = Lower(Rachel)
    /\ lookups[1].listing = lookups[2].listing
    /\ Len(lookups[1].listing) = 2
    /\ lookups[1].listing[1].name = Lower(Rachel)
    /\ lookups[1].listing[2].name = Rachel
    /\ lookups[1].result = <<lookups[1].listing[1]>>
    /\ lookups[2].result = lookups[1].result

====
